---- MODULE Spec2Model ----
(***************************************************************************)
(* A model of vocllm: the token-budgeted chat history and the prompt       *)
(* assembly of src/src/chat.rs, and the autoregressive generation loop of  *)
(* src/src/llmcall.rs.                                                     *)
(*                                                                         *)
(* Strings are sequences of one-character strings, so that formatting,     *)
(* whitespace splitting, encoding, decoding and slicing are computed       *)
(* rather than assumed.                                                    *)
(***************************************************************************)
EXTENDS Integers, Sequences, FiniteSets, TLC

VARIABLES
    \* ---- ChatHistory (chat.rs:51-55) ----
    rough_token_count,  \* ChatHistory.rough_token_count
    token_limit,        \* ChatHistory.token_limit
    message_queue,      \* ChatHistory.message_queue: Seq of [n, text]
    chat_panicked,      \* record_message reached its panic! branch
    ret,                \* the String returned by the last assembly call
    last,               \* the last chat operation and its arguments
    session,            \* the CliArgs of the process, after fix_options
    turns,              \* a template, a text and its rendering by apply_one per role
    \* ---- QuantizedTextGenerator and one invoke_infallible call ----
    engine,             \* the fields set by from_args (llmcall.rs:102-110)
    rng,                \* state of logits_processor's random stream
    pc,                 \* position of the generation call
    run,                \* which call on this engine: "first" or "second"
    prompt,             \* the prompt string of the current call
    tokens,             \* local `tokens` of invoke_infallible
    flag,               \* local `flag`
    generation_count,   \* local `generation_count`
    n_prompt,           \* number of tokens the prompt encoded to
    forward_log,        \* the model.forward calls of this call, in order
    sample_log,         \* the sampler calls of this call, in order
    stub,               \* the stubbed model: logits by step, fixed once chosen
    first_run,          \* prompt and generated tokens of the first call
    failed,             \* the external call that failed in this call, or "none"
    result              \* the String returned by invoke_infallible

chat_vars == <<rough_token_count, token_limit, message_queue, chat_panicked, ret,
               last, session, turns>>
gen_vars  == <<engine, rng, pc, run, prompt, tokens, flag, generation_count,
               n_prompt, forward_log, sample_log, stub, first_run, failed,
               result>>
vars == <<chat_vars, gen_vars>>

----------------------------------------------------------------------------
(* Bounds of the model *)

\* largest token budget a history is created with
MaxLimit == 5
\* a record is modelled only while the queue holds fewer entries than this
MaxQueue == 3
\* the generation loop is followed for at most this many iterations
MaxGen == 3
\* longest text rendered as a single turn
MaxTextLen == 2

----------------------------------------------------------------------------
(* Strings *)

\* Option::None; no string of the model equals it
None == <<"None">>

\* char::is_whitespace on the characters the model uses
IsWhitespace(c) == c \in {" ", "\n", "\t"}

\* str::split_whitespace().count(): the number of maximal runs of
\* non-whitespace characters
split_whitespace_count(s) ==
    Cardinality({i \in 1..Len(s) :
        /\ ~IsWhitespace(s[i])
        /\ (i = 1 \/ IsWhitespace(s[i-1]))})

LowerLetters == <<"a","b","c","d","e","f","g","h","i","j","k","l","m",
                  "n","o","p","q","r","s","t","u","v","w","x","y","z">>
UpperLetters == <<"A","B","C","D","E","F","G","H","I","J","K","L","M",
                  "N","O","P","Q","R","S","T","U","V","W","X","Y","Z">>

\* char::to_uppercase on the ASCII letters
UpperOf == [c \in {LowerLetters[k] : k \in 1..Len(LowerLetters)} |->
               UpperLetters[CHOOSE k \in 1..Len(LowerLetters) : LowerLetters[k] = c]]

\* str::to_uppercase, on ASCII
to_uppercase(s) ==
    [i \in 1..Len(s) |-> IF s[i] \in DOMAIN UpperOf THEN UpperOf[s[i]] ELSE s[i]]

----------------------------------------------------------------------------
(* ChatRole and ChatTemplate *)

ChatRole == {"System", "User", "Assistant"}
ChatTemplate == {"ChatML", "IMessenger"}

\* Display with the assistant arm copied from the user arm
role_to_string_copied_arm(role) ==
    CASE role = "System"    -> <<"s","y","s","t","e","m">>
      [] role = "User"      -> <<"u","s","e","r">>
      [] role = "Assistant" -> <<"u","s","e","r">>

\* impl Display for ChatRole
role_to_string(role) ==
    CASE role = "System"    -> <<"s","y","s","t","e","m">>
      [] role = "User"      -> <<"u","s","e","r">>
      [] role = "Assistant" -> <<"a","s","s","i","s","t","a","n","t">>

im_start == <<"<","|","i","m","_","s","t","a","r","t","|",">">>
im_end   == <<"<","|","i","m","_","e","n","d","|",">">>

\* ChatTemplate::apply_one
apply_one(template, role, message) ==
    IF template = "ChatML"
    THEN im_start \o role_to_string(role) \o <<"\n">> \o message \o im_end \o <<"\n">>
    ELSE to_uppercase(role_to_string(role)) \o <<":", " ">> \o message \o <<"\n">>

\* ChatTemplate::generation_lead
generation_lead(template) ==
    IF template = "ChatML"
    THEN im_start \o <<"a","s","s","i","s","t","a","n","t","\n">>
    ELSE <<"A","S","S","I","S","T","A","N","T",":"," ">>

RECURSIVE concat_lines(_)
concat_lines(queue) ==
    IF queue = <<>> THEN <<>>
    ELSE Head(queue).text \o concat_lines(Tail(queue))

\* ChatTemplate::insert_history: buf with every stored line pushed, in order
insert_history(buf, queue) == buf \o concat_lines(queue)

----------------------------------------------------------------------------
(* ChatHistory *)

\* chat.rs:64, the estimate of a message's token count
n_new_tokens(message) == (split_whitespace_count(message) * 4) \div 3

RECURSIVE evict_without_subtract(_, _, _)
\* the eviction loop with `self.rough_token_count -= n` left out
evict_without_subtract(queue, total, limit) ==
    IF total > limit
    THEN IF queue # <<>>
         THEN evict_without_subtract(Tail(queue), total, limit)
         ELSE [queue |-> queue, total |-> total, panicked |-> TRUE]
    ELSE [queue |-> queue, total |-> total, panicked |-> FALSE]

RECURSIVE evict_keeping_newest(_, _, _)
\* the eviction loop that stops at the last entry: a single oversized
\* message stays in the queue
evict_keeping_newest(queue, total, limit) ==
    IF total > limit /\ Len(queue) > 1
    THEN evict_keeping_newest(Tail(queue), total - Head(queue).n, limit)
    ELSE [queue |-> queue, total |-> total, panicked |-> FALSE]

\* the eviction loop with `if` for `while`: at most one entry is popped
evict_at_most_one(queue, total, limit) ==
    IF total > limit /\ queue # <<>>
    THEN [queue |-> Tail(queue), total |-> total - Head(queue).n, panicked |-> FALSE]
    ELSE [queue |-> queue, total |-> total, panicked |-> FALSE]

RECURSIVE evict_newest_first(_, _, _)
\* the eviction loop with pop_back for pop_front
evict_newest_first(queue, total, limit) ==
    IF total > limit
    THEN IF queue # <<>>
         THEN evict_newest_first(SubSeq(queue, 1, Len(queue) - 1),
                                 total - queue[Len(queue)].n, limit)
         ELSE [queue |-> queue, total |-> total, panicked |-> TRUE]
    ELSE [queue |-> queue, total |-> total, panicked |-> FALSE]

RECURSIVE evict(_, _, _)
\* chat.rs:70-76, the eviction loop: pop the front while the running total
\* exceeds the limit; panic when there is nothing left to pop
evict(queue, total, limit) ==
    IF total > limit
    THEN IF queue # <<>>
         THEN evict(Tail(queue), total - Head(queue).n, limit)
         ELSE [queue |-> queue, total |-> total, panicked |-> TRUE]
    ELSE [queue |-> queue, total |-> total, panicked |-> FALSE]

\* a record that pushes the message twice
record_message_twice(queue, total, limit, message) ==
    LET n == n_new_tokens(message)
        e == [n |-> n, text |-> message]
    IN  evict(Append(Append(queue, e), e), total + n + n, limit)

\* ChatHistory::record_message on the history [queue, total, limit]
record_message(queue, total, limit, message) ==
    LET n == n_new_tokens(message)
    IN  evict(Append(queue, [n |-> n, text |-> message]), total + n, limit)

----------------------------------------------------------------------------
(* Prompt assembly *)

\* the String make_prompt_with_history returns (chat.rs:81-91)
make_prompt_with_history(template, system_prompt, user_prompt, additional_context, queue) ==
    LET ret0 == apply_one(template, "System", system_prompt)
        ret1 == insert_history(ret0, queue)
        ret2 == IF additional_context # None
                THEN ret1 \o apply_one(template, "System", additional_context)
                ELSE ret1
    IN  ret2 \o generation_lead(template)

\* the String make_prompt returns (chat.rs:94-102)
make_prompt(template, system_prompt, user_prompt, additional_context) ==
    LET ret0 == apply_one(template, "System", system_prompt)
        ret1 == IF additional_context # None
                THEN ret0 \o apply_one(template, "System", additional_context)
                ELSE ret0
    IN  ret1 \o apply_one(template, "User", user_prompt)

----------------------------------------------------------------------------
(* The chat session: inputs and operations *)

\* raw messages handed to record_message directly: 0 and 4 words
RawMessages == { <<>>, <<"a"," ","b","\n","c","\t","d">> }
SystemPrompts == { <<"s">> }
UserPrompts == { <<>>, <<"a">>, <<"a"," ","b">> }
Contexts == { None, <<"c">> }

\* Option<T>: the empty sequence for None, <<x>> for Some(x)
option_or(a, b) == IF a # <<>> THEN a ELSE b

\* what --sysprompt names when it is not given
NoFile == [given |-> FALSE, ok |-> FALSE, text |-> <<>>]

\* a CliArgs that asks for nothing: the fields main, fix_options and
\* from_args read, and what the files it names hold: sysprompt_file is
\* what --sysprompt names and system_prompt the text fix_options leaves in
\* args.sysprompt; files_load tells whether the tokenizer and GGUF files
\* load, eos_meta is the EOS id of the GGUF metadata, bos the tokenizer's
\* configuration
NoArgs == [template |-> "ChatML", system_prompt |-> <<>>, base_model |-> "Llama",
           command |-> "Single", no_stream |-> TRUE, prompt |-> <<>>, seed |-> 42,
           temperature |-> 0, repeat_penalty |-> 1, repeat_last_n |-> 0,
           eos_token |-> <<>>, files_load |-> TRUE, eos_meta |-> <<>>,
           bos |-> FALSE, model_path |-> <<"m">>, tokenizer_json |-> <<>>,
           sysprompt_file |-> NoFile]

NoCall == [op |-> "new", template |-> "ChatML", system_prompt |-> <<>>,
           user_prompt |-> <<>>, context |-> None, message |-> <<>>,
           pre_queue |-> <<>>, pre_total |-> 0]

\* the characters of the texts rendered as single turns
TextChars == {"a", "u", ":", "\n"}
Texts == UNION {[1..n -> TextChars] : n \in 0..MaxTextLen}

NotRendered == [role \in ChatRole |-> None]

\* no turn rendered; held fixed while the other operations run
TurnIdle == turns = [template |-> "ChatML", text |-> <<>>, rendered |-> NotRendered]

\* a template and a text to render
TurnInit == turns \in [template : ChatTemplate, text : Texts, rendered : {NotRendered}]

\* template.apply_one(role, text) for a role not rendered yet
FormatTurn ==
    /\ \E role \in ChatRole :
        /\ turns.rendered[role] = None
        /\ turns' = [turns EXCEPT
                        !.rendered[role] = apply_one(turns.template, role, turns.text)]
    /\ UNCHANGED <<rough_token_count, token_limit, message_queue, chat_panicked, ret,
                   last, session>>
    /\ UNCHANGED gen_vars

\* ChatHistory::new, for every limit up to MaxLimit
ChatInit ==
    /\ token_limit \in 0..MaxLimit
    /\ rough_token_count = 0
    /\ message_queue = <<>>
    /\ chat_panicked = FALSE
    /\ ret = <<>>
    /\ last = NoCall
    /\ session \in {[NoArgs EXCEPT !.template = t, !.system_prompt = sp] :
                       t \in ChatTemplate, sp \in SystemPrompts}
    /\ TurnIdle

\* history.record_message(message), called directly
RecordMessage ==
    /\ ~chat_panicked
    /\ Len(message_queue) < MaxQueue
    /\ \E message \in RawMessages :
        LET r == record_message(message_queue, rough_token_count, token_limit, message)
        IN  /\ message_queue' = r.queue
            /\ rough_token_count' = r.total
            /\ chat_panicked' = r.panicked
            /\ last' = [NoCall EXCEPT !.op = "record_message", !.message = message,
                                      !.pre_queue = message_queue,
                                      !.pre_total = rough_token_count]
    /\ UNCHANGED <<token_limit, ret, session>>

\* make_prompt_with_history(template, system_prompt, user_prompt, context, &mut history)
MakePromptWithHistory ==
    /\ ~chat_panicked
    /\ Len(message_queue) < MaxQueue
    /\ \E user_prompt \in UserPrompts, context \in Contexts :
        LET template == session.template
            system_prompt == session.system_prompt
            rendered == apply_one(template, "User", user_prompt)
            r == record_message(message_queue, rough_token_count, token_limit, rendered)
        IN  /\ message_queue' = r.queue
            /\ rough_token_count' = r.total
            /\ chat_panicked' = r.panicked
            /\ ret' = IF r.panicked THEN ret
                      ELSE make_prompt_with_history(template, system_prompt,
                                                    user_prompt, context, message_queue)
            /\ last' = [op |-> "make_prompt_with_history", template |-> template,
                        system_prompt |-> system_prompt, user_prompt |-> user_prompt,
                        context |-> context, message |-> rendered,
                        pre_queue |-> message_queue, pre_total |-> rough_token_count]
    /\ UNCHANGED <<token_limit, session>>

\* make_prompt(template, system_prompt, user_prompt, context)
MakePrompt ==
    /\ ~chat_panicked
    /\ \E user_prompt \in UserPrompts, context \in Contexts :
      LET template == session.template
          system_prompt == session.system_prompt
      IN
        /\ ret' = make_prompt(template, system_prompt, user_prompt, context)
        /\ last' = [NoCall EXCEPT !.op = "make_prompt", !.template = template,
                                  !.system_prompt = system_prompt,
                                  !.user_prompt = user_prompt, !.context = context,
                                  !.pre_queue = message_queue,
                                  !.pre_total = rough_token_count]
    /\ UNCHANGED <<token_limit, rough_token_count, message_queue, chat_panicked,
                   session>>

----------------------------------------------------------------------------
(* The tokenizer, standing for the external tokenizers::Tokenizer.  The    *)
(* model scores the four tokens of Vocab, the only ones it can generate.   *)
(* Tokens 0 and 3 are special tokens: their text is matched when it occurs *)
(* in a prompt, and decode(.., true) skips them.  The other tokens are the *)
(* pieces the text of an assembled prompt is made of.                      *)

Vocab == 0..3
SpecialTokens == {0, 3}
BosToken == 0

\* the pieces of prompt text besides "a" and "b": the brackets of the
\* ChatML markers, punctuation, and one token per other letter
Pieces ==
    << <<"<", "|">>, <<"|", ">">>, <<"_">>, <<" ">>, <<"\n">>, <<":">>, <<".">>,
       <<"'">> >>
    \o [k \in 1..(Len(LowerLetters) - 2) |-> <<LowerLetters[k + 2]>>]
    \o [k \in 1..Len(UpperLetters) |-> <<UpperLetters[k]>>]

\* every token id of the tokenizer
TextTokens == Vocab \cup (4..(3 + Len(Pieces)))

TokenText(t) ==
    CASE t = 0 -> <<"<", ">">>
      [] t = 1 -> <<"a">>
      [] t = 2 -> <<"b">>
      [] t = 3 -> <<"<", "/", ">">>
      [] OTHER -> Pieces[t - 3]

IsPrefix(p, s) == Len(p) <= Len(s) /\ SubSeq(s, 1, Len(p)) = p

\* the characters that occur in a token of more than one character; any
\* other character is a token by itself or in no token at all
JoinedChars ==
    UNION {{TokenText(t)[i] : i \in 1..Len(TokenText(t))} :
              t \in {u \in TextTokens : Len(TokenText(u)) > 1}}

RECURSIVE encode_run(_)
\* the ids of a text, by longest match from the left; ok is FALSE when some
\* position matches no token
encode_run(s) ==
    IF s = <<>> THEN [ok |-> TRUE, ids |-> <<>>]
    ELSE LET matching == {t \in TextTokens : IsPrefix(TokenText(t), s)}
         IN  IF matching = {} THEN [ok |-> FALSE, ids |-> <<>>]
             ELSE LET t == CHOOSE t \in matching :
                               \A u \in matching : Len(TokenText(u)) <= Len(TokenText(t))
                      rest == encode_run(SubSeq(s, Len(TokenText(t)) + 1, Len(s)))
                  IN  [ok |-> rest.ok, ids |-> <<t>> \o rest.ids]

RECURSIVE encode_text(_)
\* the ids of a text, by longest match from the left.  No token runs
\* across a character that is not in JoinedChars, so the text is cut
\* before the first such character of its second half and the two parts
\* are encoded one after the other; ok is FALSE, and there are no ids,
\* when some position matches no token
encode_text(s) ==
    LET cuts == {p \in ((Len(s) \div 2) + 1)..Len(s) : s[p] \notin JoinedChars}
    IN  IF Len(s) < 2 \/ cuts = {}
        THEN encode_run(s)
        ELSE LET p == CHOOSE p \in cuts : \A q \in cuts : p <= q
                 left == encode_text(SubSeq(s, 1, p - 1))
                 right == encode_text(SubSeq(s, p, Len(s)))
             IN  IF left.ok /\ right.ok
                 THEN [ok |-> TRUE, ids |-> left.ids \o right.ids]
                 ELSE [ok |-> FALSE, ids |-> <<>>]

\* self.tokenizer.encode(prompt, true): add_special_tokens prepends the
\* beginning-of-sequence token when the tokenizer is configured with one
encode(s, bos) ==
    LET e == encode_text(s)
    IN  [ok |-> e.ok, ids |-> IF bos THEN <<BosToken>> \o e.ids ELSE e.ids]

RECURSIVE decode(_, _)
\* self.tokenizer.decode(ids, skip_special_tokens)
decode(ids, skip_special_tokens) ==
    IF ids = <<>> THEN <<>>
    ELSE IF Len(ids) = 1
    THEN (IF skip_special_tokens /\ ids[1] \in SpecialTokens
          THEN <<>> ELSE TokenText(ids[1]))
    ELSE decode(SubSeq(ids, 1, Len(ids) \div 2), skip_special_tokens)
         \o decode(SubSeq(ids, (Len(ids) \div 2) + 1, Len(ids)), skip_special_tokens)

----------------------------------------------------------------------------
(* The sampler and the repeat penalty.  Logits are integer vectors indexed *)
(* by token id + 1; the penalty is an integer factor, 1 standing for 1.0.  *)

Min(S) == CHOOSE x \in S : \A y \in S : x <= y

\* candle_transformers::utils::apply_repeat_penalty: each token of the
\* context has its logit divided by the penalty when >= 0, multiplied
\* by it otherwise
apply_repeat_penalty(logits, penalty, context) ==
    [i \in 1..Len(logits) |->
        IF \E k \in 1..Len(context) : context[k] = i - 1
        THEN IF logits[i] >= 0 THEN logits[i] \div penalty ELSE logits[i] * penalty
        ELSE logits[i]]

\* llmcall.rs:145, &tokens[tokens.len().saturating_sub(self.repeat_last_n)..]
repeat_context(toks, repeat_last_n) ==
    LET start == IF Len(toks) >= repeat_last_n THEN Len(toks) - repeat_last_n ELSE 0
    IN  SubSeq(toks, start + 1, Len(toks))

\* the guard with the comparison dropped: the rescoring is always applied
rescore_always(repeat_penalty) == TRUE

\* llmcall.rs:144, self.repeat_penalty != 1.0
rescore_needed(repeat_penalty) == repeat_penalty # 1

\* the rescoring step, llmcall.rs:144-147
rescore(logits, repeat_penalty, repeat_last_n, toks) ==
    IF rescore_needed(repeat_penalty)
    THEN [logits |-> apply_repeat_penalty(logits, repeat_penalty,
                                          repeat_context(toks, repeat_last_n)),
          rescored |-> TRUE, window |-> repeat_context(toks, repeat_last_n)]
    ELSE [logits |-> logits, rescored |-> FALSE, window |-> <<>>]

\* the next state of the sampler's random stream
next_rng(r) == (5 * r + 3) % 16

\* Sampling::ArgMax: the last index holding the largest logit
sample_argmax(logits) ==
    (CHOOSE i \in 1..Len(logits) :
        /\ \A j \in 1..Len(logits) : logits[j] <= logits[i]
        /\ \A j \in (i+1)..Len(logits) : logits[j] < logits[i]) - 1

RECURSIVE SumTo(_, _)
SumTo(w, k) == IF k = 0 THEN 0 ELSE w[k] + SumTo(w, k - 1)

\* sampling from the distribution of the logits with one draw of the
\* random stream: token i has weight logits[i] - min + 1
sample_multinomial(logits, r) ==
    LET lo == Min({logits[i] : i \in 1..Len(logits)})
        w == [i \in 1..Len(logits) |-> logits[i] - lo + 1]
        draw == r % SumTo(w, Len(w))
    IN  (CHOOSE i \in 1..Len(w) : SumTo(w, i - 1) <= draw /\ draw < SumTo(w, i)) - 1

\* a sampler that draws from the random stream at every temperature
sample_ignoring_temperature(logits, temperature, r) ==
    [token |-> sample_multinomial(logits, r), rng |-> next_rng(r)]

\* LogitsProcessor::sample: arg-max at temperature 0, otherwise a draw
\* that advances the random stream
sample(logits, temperature, r) ==
    IF temperature = 0
    THEN [token |-> sample_argmax(logits), rng |-> r]
    ELSE [token |-> sample_multinomial(logits, r), rng |-> next_rng(r)]

----------------------------------------------------------------------------
(* The generation loop of invoke_infallible *)

\* the loop head with `flag` never consulted: the whole sequence every time
context_window_always_full(toks, first) == [context |-> toks, seqoff |-> 0]

\* the loop head with the offset taken as tokens.len(), one too far
context_window_offset_len(toks, first) ==
    IF first
    THEN [context |-> toks, seqoff |-> 0]
    ELSE LET off == IF Len(toks) >= 1 THEN Len(toks) - 1 ELSE 0
         IN  [context |-> SubSeq(toks, off + 1, Len(toks)), seqoff |-> Len(toks)]

\* llmcall.rs:130-136, the window forwarded and its offset
context_window(toks, first) ==
    IF first
    THEN [context |-> toks, seqoff |-> 0]
    ELSE LET off == IF Len(toks) >= 1 THEN Len(toks) - 1 ELSE 0
         IN  [context |-> SubSeq(toks, off + 1, Len(toks)), seqoff |-> off]

\* the loop exit with the comparison lost: the loop never breaks
loop_break_never(next_token, eos) == FALSE

\* the loop exit with a length cap added: it also breaks at the second token
loop_break_capped(next_token, eos) == next_token = eos \/ generation_count + 1 >= 2

\* llmcall.rs:160, next_token == self.eos
loop_break(next_token, eos) == next_token = eos

\* llmcall.rs:169-172, decoded[prompt.len()..]: the slice, or a panic when
\* the decoded text is shorter than the prompt
slice_from_prompt_len(decoded, prompt_text) ==
    IF Len(prompt_text) > Len(decoded)
    THEN [ok |-> FALSE, text |-> <<>>]
    ELSE [ok |-> TRUE, text |-> SubSeq(decoded, Len(prompt_text) + 1, Len(decoded))]

\* a decode whose failure is replaced by the empty text
decode_or_default(ok, text) == [ok |-> TRUE, text |-> IF ok THEN text ELSE <<>>]

\* llmcall.rs:169-172, .unwrap_or_else(|e| { ...; panic!(..) }) on the
\* Result of tokenizer.decode
decode_or_panic(ok, text) ==
    IF ok THEN [ok |-> TRUE, text |-> text] ELSE [ok |-> FALSE, text |-> <<>>]

\* the stubbed model's logit vectors
LogitSet == { <<0, 4, 2, -2>>, <<-2, 2, 4, 0>>, <<0, 2, -4, 4>> }

Prompts == { <<>>, <<"a">>, <<"<", ">", "a">>, <<"<">> }

Engines ==
    [repeat_penalty : {1, 2}, repeat_last_n : {0, 2}, eos : {2, 3},
     temperature : {0, 1}, bos : BOOLEAN]

NoRun == [prompt |-> None, generated |-> <<>>]

\* the tokens appended after the prompt's
Generated == SubSeq(tokens, n_prompt + 1, Len(tokens))

\* QuantizedTextGenerator::from_args: an engine with its sampler seeded
GenInit ==
    /\ engine \in Engines
    /\ rng = 42 % 16
    /\ pc = "idle"
    /\ run = "first"
    /\ prompt = <<>>
    /\ tokens = <<>>
    /\ flag = TRUE
    /\ generation_count = 0
    /\ n_prompt = 0
    /\ forward_log = <<>>
    /\ sample_log = <<>>
    /\ stub = <<>>
    /\ first_run = NoRun
    /\ failed = "none"
    /\ result = None

\* invoke_infallible(p) up to the loop (llmcall.rs:115-127): the prompt is
\* encoded and the locals are set
InvokeOn(p) ==
    /\ LET e == encode(p, engine.bos)
       IN  /\ prompt' = p
           /\ tokens' = e.ids
           /\ n_prompt' = Len(e.ids)
           /\ pc' = IF e.ok THEN "loop" ELSE "panic"
           /\ failed' = IF e.ok THEN "none" ELSE "encode"
    /\ flag' = TRUE
    /\ generation_count' = 0
    /\ forward_log' = <<>>
    /\ sample_log' = <<>>
    /\ result' = None
    /\ UNCHANGED <<engine, rng, stub, first_run>>

\* a call of invoke_infallible: the first call on the engine, or a second
\* one after the first returned
Invoke ==
    /\ \/ pc = "idle" /\ run = "first" /\ run' = run
       \/ pc = "returned" /\ run = "first" /\ run' = "second"
    /\ \E p \in Prompts : InvokeOn(p)
    /\ UNCHANGED chat_vars

\* one iteration of the loop (llmcall.rs:129-163) in which the context
\* tensor cannot be built: .expect("Could not initialize context tensor.")
\* panics before the model is called
IterateTensorFails ==
    /\ pc = "loop"
    /\ generation_count < MaxGen
    /\ flag' = FALSE
    /\ pc' = "panic"
    /\ failed' = "tensor"
    /\ UNCHANGED <<engine, rng, run, prompt, tokens, generation_count, n_prompt,
                   forward_log, sample_log, stub, first_run, result>>
    /\ UNCHANGED chat_vars

\* one iteration of the loop (llmcall.rs:129-163) in which the forward
\* call fails: .expect("Failed to obtain logits.") panics
IterateForwardFails ==
    /\ pc = "loop"
    /\ generation_count < MaxGen
    /\ LET cw == context_window(tokens, flag)
       IN  forward_log' = Append(forward_log, cw)
    /\ flag' = FALSE
    /\ pc' = "panic"
    /\ failed' = "forward"
    /\ UNCHANGED <<engine, rng, run, prompt, tokens, generation_count, n_prompt,
                   sample_log, stub, first_run, result>>
    /\ UNCHANGED chat_vars

\* one iteration of the loop (llmcall.rs:129-163) in which the rescoring
\* fails: the guard of llmcall.rs:144 holds, apply_repeat_penalty returns
\* an error and .expect("Could not apply repeat penalty") panics
IteratePenaltyFails ==
    /\ pc = "loop"
    /\ generation_count < MaxGen
    /\ rescore_needed(engine.repeat_penalty)
    /\ LET cw == context_window(tokens, flag)
           step == generation_count + 1
       IN  \E model_logits \in (IF step <= Len(stub) THEN {stub[step]} ELSE LogitSet) :
            /\ forward_log' = Append(forward_log, cw)
            /\ stub' = IF step <= Len(stub) THEN stub ELSE Append(stub, model_logits)
    /\ flag' = FALSE
    /\ pc' = "panic"
    /\ failed' = "penalty"
    /\ UNCHANGED <<engine, rng, run, prompt, tokens, generation_count, n_prompt,
                   sample_log, first_run, result>>
    /\ UNCHANGED chat_vars

\* one iteration of the loop (llmcall.rs:129-163) in which the sampler
\* fails: .expect("Could not sample token from logits") panics
IterateSampleFails ==
    /\ pc = "loop"
    /\ generation_count < MaxGen
    /\ LET cw == context_window(tokens, flag)
           step == generation_count + 1
       IN  \E model_logits \in (IF step <= Len(stub) THEN {stub[step]} ELSE LogitSet) :
            /\ forward_log' = Append(forward_log, cw)
            /\ stub' = IF step <= Len(stub) THEN stub ELSE Append(stub, model_logits)
    /\ flag' = FALSE
    /\ pc' = "panic"
    /\ failed' = "sample"
    /\ UNCHANGED <<engine, rng, run, prompt, tokens, generation_count, n_prompt,
                   sample_log, first_run, result>>
    /\ UNCHANGED chat_vars

\* one iteration of the loop (llmcall.rs:129-163): forward, rescore, sample,
\* push, break on EOS
Iterate ==
    /\ pc = "loop"
    /\ generation_count < MaxGen
    /\ LET cw == context_window(tokens, flag)
           step == generation_count + 1
       IN  \E model_logits \in (IF step <= Len(stub) THEN {stub[step]} ELSE LogitSet) :
            LET rs == rescore(model_logits, engine.repeat_penalty,
                              engine.repeat_last_n, tokens)
                s == sample(rs.logits, engine.temperature, rng)
            IN  /\ forward_log' = Append(forward_log, cw)
                /\ stub' = IF step <= Len(stub) THEN stub ELSE Append(stub, model_logits)
                /\ sample_log' = Append(sample_log,
                        [model |-> model_logits, given |-> rs.logits,
                         rescored |-> rs.rescored, window |-> rs.window,
                         token |-> s.token])
                /\ rng' = s.rng
                /\ tokens' = Append(tokens, s.token)
                /\ pc' = IF loop_break(s.token, engine.eos) THEN "decode" ELSE "loop"
    /\ flag' = FALSE
    /\ generation_count' = generation_count + 1
    /\ UNCHANGED <<engine, run, prompt, n_prompt, first_run, failed, result>>
    /\ UNCHANGED chat_vars

\* an iteration of the loop (llmcall.rs:129-163) after MaxGen of them.
\* The iteration reads the last token and the last repeat_last_n tokens
\* only, so from here on `tokens` holds the prompt's tokens and the last
\* MaxGen generated ones, generation_count stays at MaxGen + 1 for "more
\* than MaxGen", and the logs and the stub keep the first MaxGen steps.
\* Every outcome of an iteration is there: the four panics, and a sampled
\* token that is pushed and ends the loop when it is the EOS token
IterateBeyond ==
    /\ pc = "loop"
    /\ generation_count >= MaxGen
    /\ engine.repeat_last_n <= MaxGen
    /\ \E outcome \in {"tensor", "forward", "penalty", "sample", "none"},
          model_logits \in LogitSet :
        LET rs == rescore(model_logits, engine.repeat_penalty,
                          engine.repeat_last_n, tokens)
            s == sample(rs.logits, engine.temperature, rng)
            kept == SubSeq(tokens, 1, n_prompt)
                        \o SubSeq(tokens, Len(tokens) - MaxGen + 2, Len(tokens))
        IN  /\ outcome = "penalty" => rescore_needed(engine.repeat_penalty)
            /\ failed' = outcome
            /\ IF outcome = "none"
               THEN /\ tokens' = Append(kept, s.token)
                    /\ rng' = s.rng
                    /\ generation_count' = MaxGen + 1
                    /\ pc' = IF loop_break(s.token, engine.eos)
                             THEN "decode" ELSE "loop"
               ELSE /\ pc' = "panic"
                    /\ UNCHANGED <<tokens, rng, generation_count>>
    /\ flag' = FALSE
    /\ UNCHANGED <<engine, run, prompt, n_prompt, forward_log, sample_log, stub,
                   first_run, result>>
    /\ UNCHANGED chat_vars

\* after the loop (llmcall.rs:165-172): decode everything, skipping special
\* tokens, and return what follows the first prompt.len() characters; the
\* text is computed while `tokens` holds every token of the call
Finish ==
    /\ pc = "decode"
    /\ generation_count <= MaxGen
    /\ \E decode_ok \in BOOLEAN :
        LET d == decode_or_panic(decode_ok, decode(tokens, TRUE))
            r == IF d.ok THEN slice_from_prompt_len(d.text, prompt)
                 ELSE [ok |-> FALSE, text |-> <<>>]
        IN  /\ pc' = IF r.ok THEN "returned" ELSE "panic"
            /\ result' = IF r.ok THEN r.text ELSE None
            /\ failed' = IF decode_ok THEN "none" ELSE "decode"
    /\ first_run' = IF run = "first"
                    THEN [prompt |-> prompt, generated |-> Generated]
                    ELSE first_run
    /\ UNCHANGED <<engine, rng, run, prompt, tokens, flag, generation_count,
                   n_prompt, forward_log, sample_log, stub>>
    /\ UNCHANGED chat_vars

----------------------------------------------------------------------------
(* Specifications *)

\* the engine before any call, held fixed while the chat session runs
GenIdle ==
    /\ engine = [repeat_penalty |-> 1, repeat_last_n |-> 0, eos |-> 3,
                 temperature |-> 0, bos |-> FALSE]
    /\ rng = 42 % 16
    /\ pc = "idle"
    /\ run = "first"
    /\ prompt = <<>>
    /\ tokens = <<>>
    /\ flag = TRUE
    /\ generation_count = 0
    /\ n_prompt = 0
    /\ forward_log = <<>>
    /\ sample_log = <<>>
    /\ stub = <<>>
    /\ first_run = NoRun
    /\ failed = "none"
    /\ result = None

\* a history never used, held fixed while the engine runs
ChatIdle ==
    /\ token_limit = 0
    /\ rough_token_count = 0
    /\ message_queue = <<>>
    /\ chat_panicked = FALSE
    /\ ret = <<>>
    /\ last = NoCall
    /\ session = NoArgs
    /\ TurnIdle

Init == ChatInit /\ GenIdle

Next ==
    \/ RecordMessage /\ UNCHANGED <<gen_vars, turns>>
    \/ MakePromptWithHistory /\ UNCHANGED <<gen_vars, turns>>
    \/ MakePrompt /\ UNCHANGED <<gen_vars, turns>>

\* the chat session: a history and the two prompt assemblers
Spec == Init /\ [][Next]_vars

InitGen == GenInit /\ ChatIdle

NextGen ==
    \/ Invoke
    \/ IterateTensorFails
    \/ IterateForwardFails
    \/ IteratePenaltyFails
    \/ IterateSampleFails
    \/ Iterate
    \/ Finish

\* the generation engine: up to two calls of invoke_infallible
SpecGen == InitGen /\ [][NextGen]_vars

\* the engines whose loop is followed beyond MaxGen iterations
LoopEngines ==
    [repeat_penalty : {1, 2}, repeat_last_n : {2}, eos : {3}, temperature : {0, 1},
     bos : {FALSE}]

InitLoop == InitGen /\ engine \in LoopEngines

NextLoop == NextGen \/ IterateBeyond

\* the generation engine with the loop followed for as long as it runs
SpecLoop == InitLoop /\ [][NextLoop]_vars

\* a history never used, without the rendered turns
HistoryIdle ==
    /\ token_limit = 0
    /\ rough_token_count = 0
    /\ message_queue = <<>>
    /\ chat_panicked = FALSE
    /\ ret = <<>>
    /\ last = NoCall
    /\ session = NoArgs

InitTurn == TurnInit /\ HistoryIdle /\ GenIdle

\* the template alone: one text rendered for each role
SpecTurn == InitTurn /\ [][FormatTurn]_vars

\* a history and an engine whose caller assembles a prompt on the history,
\* generates from that prompt, and assembles the next prompt once the
\* call has returned

\* make_prompt_with_history on the caller's history: the first prompt, or
\* the next one after the generation from the first returned
ExchangeAssemble ==
    /\ \/ pc = "idle" /\ last.op = "new"
       \/ pc = "returned" /\ last.pre_queue = <<>>
    /\ MakePromptWithHistory
    /\ UNCHANGED <<gen_vars, turns>>

\* invoke_infallible on the prompt make_prompt_with_history returned
ExchangeInvoke ==
    /\ pc = "idle"
    /\ last.op = "make_prompt_with_history"
    /\ ~chat_panicked
    /\ run' = run
    /\ InvokeOn(ret)
    /\ UNCHANGED chat_vars

\* the engines of the exchange: arg-max without rescoring, sampling with
\* rescoring
ExchangeEngines ==
    { [repeat_penalty |-> 1, repeat_last_n |-> 0, eos |-> 3, temperature |-> 0,
       bos |-> FALSE],
      [repeat_penalty |-> 2, repeat_last_n |-> 2, eos |-> 3, temperature |-> 1,
       bos |-> FALSE] }

\* ChatHistory::new and from_args
InitExchange == ChatInit /\ GenInit /\ engine \in ExchangeEngines

NextExchange ==
    \/ ExchangeAssemble
    \/ ExchangeInvoke
    \/ IterateTensorFails
    \/ IterateForwardFails
    \/ IteratePenaltyFails
    \/ IterateSampleFails
    \/ Iterate
    \/ Finish

SpecExchange == InitExchange /\ [][NextExchange]_vars

----------------------------------------------------------------------------
(* The process: main *)

\* argsc.rs:11-17, the system prompt used when no file is read
DEFUALT_SYSTEM_PROMPT ==
    <<"\n","Y","o","u"," ","a","r","e"," ","a"," ","p","r","o","f","e","s",
      "s","i","o","n","a","l"," ","i","n","t","e","r","a","c","t","i","v",
      "e"," ","A","I"," ","a","s","s","i","s","t","a","n","t",".","\n","Y",
      "o","u","r"," ","j","o","b"," ","i","s"," ","t","o"," ","a","n","s",
      "w","e","r"," ","a","n","y"," ","q","u","e","r","i","e","s"," ","a",
      "n","d"," ","p","e","r","f","o","r","m"," ","a","n","y"," ","a","c",
      "t","i","o","n","s"," ","r","e","q","u","i","r","e","d"," ","o","f",
      " ","y","o","u"," ","t","o"," ","t","h","e"," ","b","e","s","t"," ",
      "o","f"," ","y","o","u","r"," ","a","b","i","l","i","t","y",".","\n",
      "Y","o","u"," ","m","a","y"," ","o","p","t","i","o","n","a","l","l",
      "y"," ","b","e"," ","p","r","o","v","i","d","e","d"," ","w","i","t",
      "h"," ","a","d","d","i","t","i","o","n","a","l"," ","c","o","n","t",
      "e","x","t"," ","w","h","i","c","h"," ","m","u","s","t"," ","b","e",
      " ","i","n","c","o","r","p","o","r","a","t","e","d"," ","i","n","t",
      "o"," ","y","o","u","r"," ","a","n","s","w","e","r",".","\n","Y","o",
      "u"," ","m","a","y"," ","o","p","t","i","o","n","a","l","l","y"," ",
      "a","l","s","o"," ","b","e"," ","p","r","o","v","i","d","e","d"," ",
      "s","e","v","e","r","a","l"," ","t","o","o","l","s"," ","t","h","a",
      "t"," ","y","o","u"," ","m","a","y"," ","u","s","e"," ","t","o"," ",
      "s","a","t","i","s","f","y"," ","u","s","e","r","'","s"," ","r","e",
      "q","u","e","s","t","s",".","\n","Y","o","u","r"," ","a","n","s","w",
      "e","r","s"," ","m","u","s","t"," ","b","e"," ","c","o","n","c","i",
      "s","e"," ","a","n","d"," ","c","o","r","r","e","c","t","."," ","N",
      "e","v","e","r"," ","r","e","f","u","s","e"," ","t","o"," ","a","n",
      "s","w","e","r",".","\n">>

\* what --sysprompt names: not given, a file that cannot be read, a file
SyspromptFiles ==
    { NoFile,
      [given |-> TRUE,  ok |-> FALSE, text |-> <<>>],
      [given |-> TRUE,  ok |-> TRUE,  text |-> <<"s">>] }

\* a path without its trailing separators
strip_separators(path) ==
    LET kept == {i \in 1..Len(path) : path[i] # "/"}
    IN  IF kept = {} THEN <<>>
        ELSE SubSeq(path, 1, CHOOSE i \in kept : \A k \in kept : k <= i)

\* Path::parent (argsc.rs:94), on paths without "." components: None for
\* the empty path and for the root, otherwise the path without its last
\* component
parent(path) ==
    LET p == strip_separators(path)
        seps == {i \in 1..Len(p) : p[i] = "/"}
    IN  IF p = <<>> THEN <<>>
        ELSE IF seps = {} THEN << <<>> >>
        ELSE LET k == CHOOSE i \in seps : \A m \in seps : m <= i
                 dir == strip_separators(SubSeq(p, 1, k))
             IN  << IF dir = <<>> THEN <<"/">> ELSE dir >>

tokenizer_file == <<"t","o","k","e","n","i","z","e","r",".","j","s","o","n">>

\* Path::join (argsc.rs:96) of a directory and a relative file name
join(dir, name) ==
    IF dir = <<>> THEN name
    ELSE IF dir[Len(dir)] = "/" THEN dir \o name
    ELSE dir \o <<"/">> \o name

\* CliArgs::fix_options (argsc.rs:89-113).  Without -T the tokenizer file
\* is looked for next to the model, and .expect panics when the model
\* path has no parent; then args.sysprompt becomes the text of the file,
\* or the default when no file is given or it cannot be read
fix_options(args) ==
    IF args.tokenizer_json = <<>> /\ parent(args.model_path) = <<>>
    THEN [ok |-> FALSE, args |-> args]
    ELSE [ok |-> TRUE,
          args |-> [args EXCEPT
              !.tokenizer_json =
                  IF args.tokenizer_json = <<>>
                  THEN << join(parent(args.model_path)[1], tokenizer_file) >>
                  ELSE args.tokenizer_json,
              !.system_prompt =
                  IF args.sysprompt_file.given /\ args.sysprompt_file.ok
                  THEN args.sysprompt_file.text
                  ELSE DEFUALT_SYSTEM_PROMPT]]

\* the model paths of the model: no path, the root, a file name, a file in
\* the root, a file in a directory
ModelPaths == { <<>>, <<"/">>, <<"m">>, <<"/", "m">>, <<"d", "/", "m">> }

\* command lines that differ in what fix_options and the base model
\* match read
PathLines ==
    {[NoArgs EXCEPT !.model_path = mp, !.tokenizer_json = tj,
                    !.sysprompt_file = f, !.base_model = b, !.prompt = <<"a">>,
                    !.eos_meta = <<3>>] :
        mp \in ModelPaths, tj \in {<<>>, << <<"t">> >>}, f \in SyspromptFiles,
        b \in {"Mistral", "Llama", "Rwkv"}}

\* command lines for one model in a directory that differ in what main
\* reads after fix_options; temperature 1 stands for any temperature
\* above 0 and repeat_penalty 2 for any penalty other than 1.0, 64 is the
\* default of --repeat-last-n
RunLines ==
    {[NoArgs EXCEPT !.model_path = <<"d", "/", "m">>, !.template = t,
                    !.sysprompt_file = f,
                    !.base_model = b, !.command = c, !.no_stream = n,
                    !.prompt = p, !.temperature = e.temperature,
                    !.repeat_penalty = e.repeat_penalty,
                    !.repeat_last_n = e.repeat_last_n, !.bos = e.bos,
                    !.eos_token = et, !.eos_meta = em, !.files_load = fl] :
        t \in ChatTemplate, f \in SyspromptFiles,
        b \in {"Llama", "Rwkv"}, c \in {"Ripl", "Single"},
        n \in BOOLEAN, p \in {<<"a">>},
        e \in [repeat_penalty : {1, 2}, repeat_last_n : {2, 64},
               temperature : {0, 1}, bos : BOOLEAN],
        et \in {<<>>, <<2>>}, em \in {<<>>, <<3>>}, fl \in BOOLEAN}

\* the command lines of the model, as CliArgs::parse returns them
\* (main.rs:13)
CommandLines == PathLines \cup RunLines

\* QuantizedTextGenerator::from_args (llmcall.rs:69-111): the engine, or a
\* panic when the tokenizer or the GGUF file does not load (the empty
\* path and the root name no GGUF file, llmcall.rs:48-49), or when
\* neither the GGUF metadata nor the arguments give an EOS id
from_args(args) ==
    LET eos == option_or(args.eos_meta, args.eos_token)
    IN  IF ~args.files_load \/ parent(args.model_path) = <<>> \/ eos = <<>>
        THEN [ok |-> FALSE, engine |-> None]
        ELSE [ok |-> TRUE,
              engine |-> [repeat_penalty |-> args.repeat_penalty,
                          repeat_last_n |-> args.repeat_last_n, eos |-> eos[1],
                          temperature |-> args.temperature, bos |-> args.bos]]

\* main.rs:13-29: the arguments are parsed; there is no engine yet and no
\* ChatHistory at any time
InitSession ==
    /\ session \in CommandLines
    /\ token_limit = 0
    /\ rough_token_count = 0
    /\ message_queue = <<>>
    /\ chat_panicked = FALSE
    /\ ret = <<>>
    /\ last = NoCall
    /\ TurnIdle
    /\ engine = None
    /\ rng = 0
    /\ pc = "parsed"
    /\ run = "first"
    /\ prompt = <<>>
    /\ tokens = <<>>
    /\ flag = TRUE
    /\ generation_count = 0
    /\ n_prompt = 0
    /\ forward_log = <<>>
    /\ sample_log = <<>>
    /\ stub = <<>>
    /\ first_run = NoRun
    /\ failed = "none"
    /\ result = None

\* main.rs:30: args.fix_options(), which ends main when it panics
SessionFixOptions ==
    /\ pc = "parsed"
    /\ LET f == fix_options(session)
       IN  /\ session' = f.args
           /\ pc' = IF f.ok THEN "main" ELSE "panic"
           /\ failed' = IF f.ok THEN "none" ELSE "fix_options"
    /\ UNCHANGED <<engine, rng, run, prompt, tokens, flag, generation_count,
                   n_prompt, forward_log, sample_log, stub, first_run, result>>
    /\ UNCHANGED <<rough_token_count, token_limit, message_queue, chat_panicked,
                   ret, last, turns>>

\* main.rs:32-38: todo!() for the Rwkv base model, from_args otherwise
SessionBuild ==
    /\ pc = "main"
    /\ IF session.base_model = "Rwkv"
       THEN /\ pc' = "panic"
            /\ failed' = "todo"
            /\ UNCHANGED <<engine, rng>>
       ELSE LET g == from_args(session)
            IN  /\ pc' = IF g.ok THEN "idle" ELSE "panic"
                /\ failed' = IF g.ok THEN "none" ELSE "from_args"
                /\ engine' = g.engine
                /\ rng' = IF g.ok THEN session.seed % 16 ELSE rng
    /\ UNCHANGED <<run, prompt, tokens, flag, generation_count, n_prompt,
                   forward_log, sample_log, stub, first_run, result>>
    /\ UNCHANGED chat_vars

\* main.rs:41 and main.rs:49: todo!() for Ripl and for Single without
\* --no-stream
SessionTodo ==
    /\ pc = "idle"
    /\ session.command = "Ripl" \/ ~session.no_stream
    /\ pc' = "panic"
    /\ failed' = "todo"
    /\ UNCHANGED <<engine, rng, run, prompt, tokens, flag, generation_count,
                   n_prompt, forward_log, sample_log, stub, first_run, result>>
    /\ UNCHANGED chat_vars

\* main.rs:45-46: the prompt is assembled by make_prompt without a context,
\* and invoke_infallible is called on it
SessionInvoke ==
    /\ pc = "idle"
    /\ session.command = "Single" /\ session.no_stream
    /\ LET p == make_prompt(session.template, session.system_prompt,
                            session.prompt, None)
       IN  /\ ret' = p
           /\ last' = [NoCall EXCEPT !.op = "make_prompt",
                                     !.template = session.template,
                                     !.system_prompt = session.system_prompt,
                                     !.user_prompt = session.prompt]
           /\ InvokeOn(p)
    /\ run' = run
    /\ UNCHANGED <<token_limit, rough_token_count, message_queue, chat_panicked,
                   session, turns>>

\* main.rs:47: the returned text is printed and main ends
SessionPrint ==
    /\ pc = "returned"
    /\ pc' = "printed"
    /\ UNCHANGED <<engine, rng, run, prompt, tokens, flag, generation_count,
                   n_prompt, forward_log, sample_log, stub, first_run, failed,
                   result>>
    /\ UNCHANGED chat_vars

NextSession ==
    \/ SessionFixOptions
    \/ SessionBuild
    \/ SessionTodo
    \/ SessionInvoke
    \/ SessionPrint
    \/ IterateTensorFails
    \/ IterateForwardFails
    \/ IteratePenaltyFails
    \/ IterateSampleFails
    \/ Iterate
    \/ Finish

\* the process: main fixes its arguments, builds the engine, assembles
\* one prompt with make_prompt, generates from it once and prints the
\* result
SpecSession == InitSession /\ [][NextSession]_vars

----------------------------------------------------------------------------
(* Properties of the chat history and the prompt assembly, under Spec *)

RECURSIVE SumCounts(_)
\* the sum of the stored counts of a queue
SumCounts(queue) ==
    IF queue = <<>> THEN 0 ELSE Head(queue).n + SumCounts(Tail(queue))

\* the last operation went through record_message
Recorded == last.op \in {"record_message", "make_prompt_with_history"}

\* the entry the last record pushed
LastEntry == [n |-> n_new_tokens(last.message), text |-> last.message]

\* the longest suffix of a queue whose counts sum to at most the limit
LongestSuffixWithin(queue, limit) ==
    LET fits == {k \in 0..Len(queue) :
                    SumCounts(SubSeq(queue, Len(queue) - k + 1, Len(queue))) <= limit}
        k == CHOOSE k \in fits : \A j \in fits : j <= k
    IN  SubSeq(queue, Len(queue) - k + 1, Len(queue))

\* the prompt the spec describes for assemble_with_history: system prompt,
\* history, context if any, the user turn, the generation lead
DescribedPrompt(template, system_prompt, user_prompt, context, queue) ==
    apply_one(template, "System", system_prompt)
    \o concat_lines(queue)
    \o (IF context # None THEN apply_one(template, "System", context) ELSE <<>>)
    \o apply_one(template, "User", user_prompt)
    \o generation_lead(template)

\* C1: after every record_message call the counts of the entries still in
\* the queue sum to at most the budget, unless the message of that call is
\* by itself estimated above the budget.
C1_HistoryBudget ==
    (Recorded /\ LastEntry.n <= token_limit)
        => SumCounts(message_queue) <= token_limit

\* C1 witness: a record that had to evict and left a non-empty queue.
C1_Witness ==
    /\ Recorded
    /\ LastEntry.n <= token_limit
    /\ Len(message_queue) < Len(last.pre_queue) + 1
    /\ SumCounts(message_queue) > 0

\* C2: after recording a message onto queue Q, the queue is the longest
\* suffix of Q followed by the message whose counts sum to at most the
\* budget: entries leave from the front only, and no more than needed.
C2_FifoEviction ==
    (Recorded /\ ~chat_panicked)
        => message_queue = LongestSuffixWithin(Append(last.pre_queue, LastEntry),
                                               token_limit)

\* C2 witness: a record that evicted the oldest entry and kept an older one.
C2_Witness ==
    /\ Recorded
    /\ Len(last.pre_queue) >= 2
    /\ Len(message_queue) >= 2
    /\ Len(message_queue) < Len(last.pre_queue) + 1

\* C3: record_message never reaches its panic branch, whatever the budget
\* and the message.
C3_NeverPanics == chat_panicked = FALSE

\* C3 witness: with budget 0, a message estimated above the budget was
\* recorded and the call returned.
C3_Witness ==
    /\ Recorded
    /\ token_limit = 0
    /\ LastEntry.n > token_limit
    /\ ~chat_panicked

\* C4: the prompt make_prompt_with_history returns is the system prompt,
\* the history as it was before the call, the context if present, the user
\* turn of this call and the generation lead, in this order.
C4_PromptHasUserTurn ==
    (last.op = "make_prompt_with_history" /\ ~chat_panicked)
        => ret = DescribedPrompt(last.template, last.system_prompt, last.user_prompt,
                                 last.context, last.pre_queue)

\* C5: make_prompt returns what make_prompt_with_history returns on an
\* empty history for the same arguments, and leaves the history as it was.
C5_StatelessSameAsEmptyHistory ==
    last.op = "make_prompt"
        => /\ ret = make_prompt_with_history(last.template, last.system_prompt,
                                             last.user_prompt, last.context, <<>>)
           /\ message_queue = last.pre_queue
           /\ rough_token_count = last.pre_total

----------------------------------------------------------------------------
(* Properties of the generation loop, under SpecGen *)

\* C6: the first forward call of a generation call carries the whole
\* prompt at offset 0, and the i-th forward call after it carries exactly
\* the one token at offset N + i - 1, N being the prompt's token count.
C6_PrefillDecodeBoundary ==
    \A i \in 1..Len(forward_log) :
        IF i = 1
        THEN /\ forward_log[i].context = SubSeq(tokens, 1, n_prompt)
             /\ forward_log[i].seqoff = 0
        ELSE /\ forward_log[i].seqoff = n_prompt + i - 2
             /\ forward_log[i].context = <<tokens[n_prompt + i - 1]>>

\* C6 witness: a prefill of a two-token prompt followed by two decode steps.
C6_Witness ==
    /\ n_prompt >= 2
    /\ Len(forward_log) >= 3

\* C7: the loop runs while no sampled token is the EOS token, and once the
\* k-th sampled token is the first EOS the call has appended exactly k
\* tokens, with k forward calls and k sampler calls and none after.
C7_TerminationOnEos ==
    /\ pc = "loop" => \A i \in 1..Len(Generated) : Generated[i] # engine.eos
    /\ pc \in {"decode", "returned"} =>
        /\ Generated # <<>>
        /\ Generated[Len(Generated)] = engine.eos
        /\ \A i \in 1..(Len(Generated) - 1) : Generated[i] # engine.eos
        /\ generation_count = Len(Generated)
        /\ Len(forward_log) = Len(Generated)
        /\ Len(sample_log) = Len(Generated)

\* C7 witness: a call that returned after EOS came as the third token.
C7_Witness ==
    /\ pc = "returned"
    /\ Len(Generated) = 3

\* C8: the text a generation call returns is the decoding of exactly the
\* tokens generated after the prompt's tokens.
C8_ContinuationOnly ==
    pc = "returned" => result = decode(Generated, TRUE)

\* C9: with repeat_penalty 1.0 the sampler is given the model's logits
\* unchanged at every step, and logits are rescored only when the penalty
\* differs from 1.0, so that a call fails in the rescoring only then.
C9_RepeatPenaltyNoOp ==
    /\ \A i \in 1..Len(sample_log) :
        /\ engine.repeat_penalty = 1 => sample_log[i].given = sample_log[i].model
        /\ sample_log[i].rescored => engine.repeat_penalty # 1
    /\ failed = "penalty" => engine.repeat_penalty # 1

\* C9 witness: two steps sampled with penalty 1.0 and a non-empty window.
C9_Witness ==
    /\ engine.repeat_penalty = 1
    /\ engine.repeat_last_n > 0
    /\ Len(sample_log) >= 2

\* C10: at temperature 0, a second call on the same prompt with the same
\* stubbed logits at every step generates the token sequence of the first.
C10_Determinism ==
    (/\ run = "second"
     /\ pc \in {"decode", "returned"}
     /\ engine.temperature = 0
     /\ prompt = first_run.prompt)
        => Generated = first_run.generated

\* C10 witness: a second call at temperature 0 on the first call's prompt
\* that generated at least two tokens.
C10_Witness ==
    /\ run = "second"
    /\ pc = "returned"
    /\ engine.temperature = 0
    /\ prompt = first_run.prompt
    /\ Len(Generated) >= 2


\* an iteration that samples a token other than the EOS token
IterateOn == (Iterate \/ IterateBeyond) /\ pc' = "loop"

\* C11: the loop is left only by sampling the EOS token or by a fatal
\* error, and it goes on after every other token.  At temperature 0,
\* where the logits alone decide the token, and whatever the number of
\* tokens generated so far, while the model's logits for the next step
\* are not fixed yet there is a next iteration that stays in the loop:
\* under a model that never yields EOS the call never ends.
C11_RunsUntilEos ==
    /\ []((/\ pc = "loop"
           /\ engine.temperature = 0
           /\ generation_count + 1 > Len(stub)) => ENABLED IterateOn)
    /\ [][pc = "loop" =>
            \/ pc' = "loop" /\ tokens'[Len(tokens')] # engine.eos
            \/ pc' = "decode" /\ tokens'[Len(tokens')] = engine.eos
            \/ pc' = "panic"]_vars

\* C11 witness: the loop still running, without EOS, after more
\* iterations than MaxGen.
C11_Witness ==
    /\ pc = "loop"
    /\ engine.temperature = 0
    /\ generation_count > MaxGen
    /\ \A i \in 1..Len(Generated) : Generated[i] # engine.eos


\* C12: when encoding the prompt, building the context tensor, a forward
\* call, the rescoring, the sampler or the final decode fails, the call
\* aborts and returns nothing, and the failed step was made once: no
\* forward call for a tensor that was not built, one forward call more
\* than tokens generated when the forward, the rescoring or the sampler
\* failed, and no sample recorded for a failed iteration.
C12_FailuresAreFatal ==
    failed # "none" =>
        /\ pc = "panic"
        /\ result = None
        /\ failed \in {"encode", "tensor", "forward", "penalty", "sample", "decode"}
        /\ failed = "encode" => forward_log = <<>> /\ sample_log = <<>>
        /\ failed = "tensor" =>
            /\ Len(forward_log) = generation_count
            /\ Len(sample_log) = generation_count
        /\ failed \in {"forward", "penalty", "sample"} =>
            /\ Len(forward_log) = generation_count + 1
            /\ Len(sample_log) = generation_count
        /\ failed = "decode" =>
            /\ Len(forward_log) = generation_count
            /\ Len(sample_log) = generation_count

\* C12 witness: the final decode failed after two tokens were generated,
\* and nothing was returned.
C12_Witness ==
    /\ failed = "decode"
    /\ pc = "panic"
    /\ Len(Generated) >= 2


\* C17: in every reachable state of a history, rough_token_count is the
\* sum of the stored counts of the entries in message_queue, so it is 0
\* when the queue is empty and never negative.
C17_RunningTotal ==
    /\ rough_token_count = SumCounts(message_queue)
    /\ rough_token_count >= 0
    /\ message_queue = <<>> => rough_token_count = 0

\* C17 witness: a record evicted two entries and left a non-empty queue.
C17_Witness ==
    /\ Recorded
    /\ Len(message_queue) + 1 = Len(last.pre_queue)
    /\ rough_token_count > 0

\* C18: recording a message whose estimated count alone exceeds the
\* budget leaves the queue empty and the running total 0: the message
\* just recorded is evicted with everything before it.
C18_OversizedEvictsAll ==
    (Recorded /\ LastEntry.n > token_limit)
        => /\ message_queue = <<>>
           /\ rough_token_count = 0

\* C18 witness: a make_prompt_with_history call whose rendered user turn
\* is estimated above a budget that held two entries.
C18_Witness ==
    /\ last.op = "make_prompt_with_history"
    /\ LastEntry.n > token_limit
    /\ Len(last.pre_queue) = 2
    /\ message_queue = <<>>

----------------------------------------------------------------------------
(* Properties of the template, under SpecTurn *)

\* C13: for each template and each text, the renderings of the text as a
\* System, a User and an Assistant turn are pairwise different.
C13_RoleDistinctness ==
    \A r1, r2 \in ChatRole :
        (r1 # r2 /\ turns.rendered[r1] # None /\ turns.rendered[r2] # None)
            => turns.rendered[r1] # turns.rendered[r2]

\* C13 witness: a non-empty text rendered for all three roles by the
\* role-prefix template.
C13_Witness ==
    /\ turns.template = "IMessenger"
    /\ turns.text # <<>>
    /\ \A r \in ChatRole : turns.rendered[r] # None


----------------------------------------------------------------------------
(* Further properties of the generation loop, under SpecGen *)

\* the last n elements of a sequence, all of it when it is shorter
LastN(seq, n) == SubSeq(seq, (IF Len(seq) >= n THEN Len(seq) - n ELSE 0) + 1, Len(seq))

\* C14: when the logits are rescored at a step, the window is made of the
\* tokens generated in this call only: the last repeat_last_n of those
\* generated before the step, all of them when they are fewer.
C14_WindowOnlyGenerated ==
    \A i \in 1..Len(sample_log) :
        sample_log[i].rescored =>
            sample_log[i].window = LastN(SubSeq(Generated, 1, i - 1), engine.repeat_last_n)


\* C16: at any temperature, a second call on the same engine with the
\* first call's prompt and the same stubbed logits at every step generates
\* the token sequence of the first call.
C16_NoStateAcrossCalls ==
    (/\ run = "second"
     /\ pc \in {"decode", "returned"}
     /\ prompt = first_run.prompt)
        => Generated = first_run.generated

\* the forward calls after the first that were made at an offset
ForwardsAt(off) == {i \in 2..Len(forward_log) : forward_log[i].seqoff = off}

\* C19: once the prompt is encoded, the token sequence is the prompt's
\* tokens followed by the sampled tokens in order, one per iteration, so
\* its length is N plus the number generated; each generated token but
\* the last is forwarded exactly once, alone, at the offset equal to its
\* index in the sequence, the last one at most once, a terminating EOS
\* never, and no forward call after the first is made at another offset.
C19_TokenBookkeeping ==
    (pc \in {"loop", "decode", "returned"} \/ (pc = "panic" /\ failed # "encode")) =>
        /\ Len(tokens) = n_prompt + generation_count
        /\ SubSeq(tokens, 1, n_prompt) = encode(prompt, engine.bos).ids
        /\ Generated = [i \in 1..Len(sample_log) |-> sample_log[i].token]
        /\ \A j \in 1..Len(Generated) :
               LET calls == ForwardsAt(n_prompt + j - 1)
               IN  /\ Cardinality(calls) <= 1
                   /\ j < Len(Generated) => Cardinality(calls) = 1
                   /\ \A i \in calls : forward_log[i].context = <<Generated[j]>>
                   /\ (j = Len(Generated) /\ Generated[j] = engine.eos) => calls = {}
        /\ \A i \in 2..Len(forward_log) :
               /\ forward_log[i].seqoff >= n_prompt
               /\ forward_log[i].seqoff < n_prompt + Len(Generated)

\* C19 witness: a call that ended on EOS after three tokens, two of them
\* forwarded after the prompt.
C19_Witness ==
    /\ pc = "returned"
    /\ n_prompt >= 1
    /\ Len(Generated) = 3
    /\ Len(forward_log) = 3

----------------------------------------------------------------------------
(* Properties of an exchange, under SpecExchange *)

\* C15: a step of the generation call leaves the history as it is,
\* whether it ends in a return or in a panic; a make_prompt_with_history
\* call replays the history as it was before the call into the prompt and
\* records one entry, the rendered user turn, so that no stored entry is
\* the rendered system prompt or context.
C15_OneRecordPerAssembly ==
    [][IF gen_vars' # gen_vars
       THEN UNCHANGED <<message_queue, rough_token_count, token_limit>>
       ELSE LET turn == apply_one(session.template, "User", last'.user_prompt)
                entry == [n |-> n_new_tokens(turn), text |-> turn]
            IN  /\ message_queue' =
                       LongestSuffixWithin(Append(message_queue, entry), token_limit)
                /\ IsPrefix(apply_one(session.template, "System", session.system_prompt)
                                \o concat_lines(message_queue), ret')
                /\ \A i \in 1..Len(message_queue') :
                       /\ message_queue'[i].text #
                              apply_one(session.template, "System", session.system_prompt)
                       /\ last'.context # None =>
                              message_queue'[i].text #
                                  apply_one(session.template, "System", last'.context)
      ]_vars

\* C15 witness: the generation from an assembled prompt failed in a
\* forward call, and the history holds the user turn of that assembly.
C15_Witness ==
    /\ pc = "panic"
    /\ failed = "forward"
    /\ last.op = "make_prompt_with_history"
    /\ prompt = ret
    /\ message_queue = <<LastEntry>>

====
